---- MODULE Spec2Model ----
(***************************************************************************)
(* A model of java-memory-horse-analysis.py (class JavaProcessAnalyzer).   *)
(*                                                                         *)
(* A Python str is modelled as a Text: a sequence of lexemes.  A lexeme is *)
(* one character (" ", ":", "=", "<", ...) or one marker-free word such as *)
(* "ClassLoader" or "at"; the string it stands for is the concatenation of *)
(* its lexemes.  The str methods the program uses (strip, split, join,     *)
(* startswith, in) are operators on Texts that compute what the method     *)
(* computes on that string.                                                *)
(***************************************************************************)
EXTENDS Integers, Sequences, FiniteSets, TLC

VARIABLES
    pc,             \* position of the call under analysis
    arg,            \* argument of a parser / scanner call (tool run or file)
    ret,            \* what that call returned
    output_file,    \* generate_report: its output_file argument
    java_processes, \* generate_report: the listing, an insertion-ordered dict
    idx,            \* generate_report: position of the for loop in the listing
    info,           \* generate_report: process_info under construction
    report,         \* generate_report: the report object
    written,        \* generate_report: what was dumped to the output file
    events,         \* every call and return of an operation so far, in order
    outcomes,       \* what the external tool did in each invocation
    last            \* the latest finished tool-backed operation and its result

vars == <<pc, arg, ret, output_file, java_processes, idx, info, report,
          written, events, outcomes, last>>

---------------------------------------------------------------------------
(* Python str methods *)

Whitespace == {" ", "\t", "\n"}

\* Python None: a Text of one lexeme that no tool output holds
None == <<"None">>

Min(S) == CHOOSE x \in S : \A y \in S : x <= y

Tail_(s, i) == SubSeq(s, i, Len(s))

\* s.find(c) for a one-lexeme c: the first index holding c, 0 when there is none
Find(s, c) ==
    IF \E i \in 1..Len(s) : s[i] = c
    THEN Min({i \in 1..Len(s) : s[i] = c})
    ELSE 0

\* s.startswith(p)
StartsWith(s, p) == Len(s) >= Len(p) /\ SubSeq(s, 1, Len(p)) = p

\* p in s
Contains(s, p) == \E i \in 1..(Len(s) + 1) : StartsWith(Tail_(s, i), p)

RECURSIVE LStrip(_)
LStrip(s) ==
    IF s # <<>> /\ Head(s) \in Whitespace THEN LStrip(Tail(s)) ELSE s

RECURSIVE RStrip(_)
RStrip(s) ==
    IF s # <<>> /\ s[Len(s)] \in Whitespace
    THEN RStrip(SubSeq(s, 1, Len(s) - 1))
    ELSE s

\* s.strip()
Strip(s) == RStrip(LStrip(s))

\* s.split(c): every occurrence of c separates two parts
RECURSIVE SplitOn(_, _)
SplitOn(s, c) ==
    LET i == Find(s, c)
    IN  IF i = 0
        THEN <<s>>
        ELSE <<SubSeq(s, 1, i - 1)>> \o SplitOn(Tail_(s, i + 1), c)

\* a split at every occurrence of c, where only the first one should count
SplitEvery(s, c) == SplitOn(s, c)

\* s.split(c, 1): only the first occurrence of c separates
SplitFirst(s, c) ==
    LET i == Find(s, c)
    IN  IF i = 0 THEN <<s>> ELSE <<SubSeq(s, 1, i - 1), Tail_(s, i + 1)>>

\* s.split(): the maximal runs of non-whitespace
RECURSIVE SplitWS(_)
SplitWS(s) ==
    LET t == LStrip(s)
    IN  IF t = <<>>
        THEN <<>>
        ELSE LET ws == {i \in 1..Len(t) : t[i] \in Whitespace}
                 e == IF ws = {} THEN Len(t) + 1 ELSE Min(ws)
             IN  <<SubSeq(t, 1, e - 1)>> \o SplitWS(Tail_(t, e))

\* sep.join(parts)
RECURSIVE Join(_, _)
Join(sep, parts) ==
    IF parts = <<>> THEN <<>>
    ELSE IF Len(parts) = 1 THEN parts[1]
    ELSE parts[1] \o sep \o Join(sep, Tail(parts))

---------------------------------------------------------------------------
(* Python dict: insertion-ordered, a sequence of <<key, value>> pairs *)

EmptyDict == <<>>

Keys(d) == {d[i][1] : i \in 1..Len(d)}

KeyList(d) == [i \in 1..Len(d) |-> d[i][1]]

Get(d, k) == d[CHOOSE i \in 1..Len(d) : d[i][1] = k][2]

\* d[k] = v: a key already present keeps its position
DictSet(d, k, v) ==
    IF k \in Keys(d)
    THEN [i \in 1..Len(d) |-> IF d[i][1] = k THEN <<k, v>> ELSE d[i]]
    ELSE Append(d, <<k, v>>)

---------------------------------------------------------------------------
(* subprocess.run and the exceptions it raises *)

\* A run of an external tool: it timed out, could not be launched, returned
\* a non-zero exit code, or returned zero with the text it printed.
RunKinds == {"timeout", "oserror", "nonzero", "ok"}

Run(kind, stdout) == [kind |-> kind, stdout |-> stdout]

\* the exception subprocess.run raises for a run, "none" when it returns
ExcOf(run) ==
    CASE run.kind = "timeout" -> "TimeoutExpired"
      [] run.kind = "oserror" -> "OSError"
      [] OTHER                -> "none"

returncode(run) == IF run.kind = "ok" THEN 0 ELSE 1


\* the result of a call: a returned value, or an exception that left it
\* an except clause that catches only the very class it names
CatchesExactClass(cls, exc) == exc # "none" /\ cls = exc

\* what an except clause catches: TimeoutExpired and OSError derive from
\* Exception
Catches(cls, exc) == exc # "none" /\ (cls = "Exception" \/ cls = exc)

\* the result of a call: a returned value with its Python type, or an
\* exception that left the call
Returned(type, v, logged) ==
    [raised |-> FALSE, type |-> type, value |-> v, logged |-> logged]

Raised(exc) ==
    [raised |-> TRUE, type |-> "exception", value |-> None, logged |-> exc]

---------------------------------------------------------------------------
(* get_java_processes *)

\* `if line:` and `if len(parts) > 1:` admit a single-token line
JpsAcceptsOneToken(line, parts) == line # <<>> /\ Len(parts) >= 1

\* `if line:` and `if len(parts) > 1:`
JpsAccepts(line, parts) == line # <<>> /\ Len(parts) > 1

\* the for loop of lines 33-39
RECURSIVE JpsLoop(_, _)
JpsLoop(lines, processes) ==
    IF lines = <<>>
    THEN processes
    ELSE LET line  == Head(lines)
             parts == SplitWS(line)
         IN  JpsLoop(Tail(lines),
                     IF JpsAccepts(line, parts)
                     THEN DictSet(processes, parts[1],
                                  Join(<<" ">>, Tail(parts)))
                     ELSE processes)

get_java_processes(run) ==
    LET exc == ExcOf(run)
    IN  IF exc = "none"
        THEN Returned("dict",
                      IF returncode(run) = 0
                      THEN JpsLoop(SplitOn(Strip(run.stdout), "\n"), EmptyDict)
                      ELSE EmptyDict,
                      "")
        ELSE IF Catches("TimeoutExpired", exc)
        THEN Returned("dict", EmptyDict, "timeout")
        ELSE IF Catches("Exception", exc)
        THEN Returned("dict", EmptyDict, "failed")
        ELSE Raised(exc)

---------------------------------------------------------------------------
(* analyze_web_components, _parse_classloader_output *)

\* a dict used as a record: a function from keys to values
EmptyRec == [k \in {} |-> None]

Truthy(d) == DOMAIN d # {}

SetItem(d, k, v) == [x \in DOMAIN d \cup {k} |-> IF x = k THEN v ELSE d[x]]

LoaderMarker == <<"ClassLoader">>

\* a flush that loses the record in progress
FlushDropped(records, current) == records

\* `if current: records.append(current)` of both parsers
Flush(records, current) ==
    IF Truthy(current) THEN Append(records, current) ELSE records

\* the for loop of lines 71-81, then the flush of lines 82-83
RECURSIVE ClassloaderLoop(_, _, _)
ClassloaderLoop(lines, loaders, current_loader) ==
    IF lines = <<>>
    THEN Flush(loaders, current_loader)
    ELSE LET line  == Head(lines)
             parts == SplitOn(Strip(line), ":")
         IN  IF Strip(line) = <<>>
             THEN ClassloaderLoop(Tail(lines), loaders, current_loader)
             ELSE IF StartsWith(line, LoaderMarker)
             THEN ClassloaderLoop(Tail(lines),
                                  Flush(loaders, current_loader),
                                  SetItem(EmptyRec, <<"type">>, Strip(line)))
             ELSE IF Truthy(current_loader) /\ Len(parts) = 2
             THEN ClassloaderLoop(Tail(lines), loaders,
                                  SetItem(current_loader, Strip(parts[1]),
                                          Strip(parts[2])))
             ELSE ClassloaderLoop(Tail(lines), loaders, current_loader)

_parse_classloader_output(output) ==
    ClassloaderLoop(SplitOn(output, "\n"), <<>>, EmptyRec)

analyze_web_components(pid, run) ==
    LET exc == ExcOf(run)
    IN  IF exc = "none"
        THEN Returned("list",
                      IF returncode(run) = 0
                      THEN <<>> \o _parse_classloader_output(run.stdout)
                      ELSE <<>>,
                      "")
        ELSE IF Catches("Exception", exc)
        THEN Returned("list", <<>>, "failed")
        ELSE Raised(exc)

---------------------------------------------------------------------------
(* analyze_threads, _parse_thread_dump *)

StateMarker == <<"java.lang.Thread.State", ":">>

StackPrefix == <<"at", " ">>

\* line.split(':')[1]
ThreadState(line) == Strip(SplitOn(line, ":")[2])

\* line.split('"')[0]
ThreadNameFirstPart(line) == SplitOn(line, "\"")[1]

\* line.split('"')[1]
ThreadName(line) == SplitOn(line, "\"")[2]

\* the for loop of lines 108-120, then the flush of lines 121-122
RECURSIVE ThreadLoop(_, _, _)
ThreadLoop(lines, threads, current_thread) ==
    IF lines = <<>>
    THEN Flush(threads, current_thread)
    ELSE LET line == Head(lines)
         IN  IF StartsWith(line, <<"\"">>)
             THEN ThreadLoop(Tail(lines),
                             Flush(threads, current_thread),
                             [name  |-> ThreadName(line),
                              state |-> None,
                              stack |-> <<>>])
             ELSE IF Contains(line, StateMarker) /\ Truthy(current_thread)
             THEN ThreadLoop(Tail(lines), threads,
                             [current_thread EXCEPT
                                 !.state = ThreadState(line)])
             ELSE IF StartsWith(Strip(line), StackPrefix)
                     /\ Truthy(current_thread)
             THEN ThreadLoop(Tail(lines), threads,
                             [current_thread EXCEPT
                                 !.stack = Append(@, Strip(line))])
             ELSE ThreadLoop(Tail(lines), threads, current_thread)

_parse_thread_dump(output) ==
    ThreadLoop(SplitOn(output, "\n"), <<>>, EmptyRec)

analyze_threads(pid, run) ==
    LET exc == ExcOf(run)
    IN  IF exc = "none"
        THEN Returned("list",
                      IF returncode(run) = 0
                      THEN _parse_thread_dump(run.stdout)
                      ELSE <<>>,
                      "")
        ELSE IF Catches("Exception", exc)
        THEN Returned("list", <<>>, "failed")
        ELSE Raised(exc)

---------------------------------------------------------------------------
(* analyze_system_properties *)

\* the for loop of lines 138-141
RECURSIVE PropertiesLoop(_, _)
PropertiesLoop(lines, properties) ==
    IF lines = <<>>
    THEN properties
    ELSE LET line == Head(lines)
             kv   == SplitFirst(line, "=")
         IN  PropertiesLoop(Tail(lines),
                            IF Contains(line, <<"=">>)
                            THEN SetItem(properties, Strip(kv[1]), Strip(kv[2]))
                            ELSE properties)

analyze_system_properties(pid, run) ==
    LET exc == ExcOf(run)
    IN  IF exc = "none"
        THEN Returned("dict",
                      IF returncode(run) = 0
                      THEN PropertiesLoop(SplitOn(run.stdout, "\n"), EmptyRec)
                      ELSE EmptyRec,
                      "")
        ELSE IF Catches("Exception", exc)
        THEN Returned("dict", EmptyRec, "failed")
        ELSE Raised(exc)

---------------------------------------------------------------------------
(* _analyze_single_jsp: re.findall(r'<%.*?%>', content, re.DOTALL) *)

Lit(c) == [kind |-> "lit", ch |-> c]

LazyAny == [kind |-> "lazy", ch |-> "."]

\* r'<%.*?%>'
ScriptletPattern == <<Lit("<"), Lit("%"), LazyAny, Lit("%"), Lit(">")>>

\* without re.DOTALL '.' does not match the newline
DotMatchesNoDotall(c) == c # "\n"

\* re.DOTALL: '.' matches every character, the newline included
DotMatches(c) == TRUE

\* The backtracking matcher: where a match of pat[k..] that starts at pos
\* ends (the index after its last character), 0 when there is none.  The lazy
\* star first tries to go on without consuming, and consumes one more
\* character only when that fails.
RECURSIVE MatchAt(_, _, _, _)
MatchAt(pat, k, text, pos) ==
    IF k > Len(pat)
    THEN pos
    ELSE IF pat[k].kind = "lit"
    THEN IF pos <= Len(text) /\ text[pos] = pat[k].ch
         THEN MatchAt(pat, k + 1, text, pos + 1)
         ELSE 0
    ELSE LET skip == MatchAt(pat, k + 1, text, pos)
             more == IF pos <= Len(text) /\ DotMatches(text[pos])
                     THEN MatchAt(pat, k, text, pos + 1)
                     ELSE 0
         IN  IF skip # 0 THEN skip ELSE more

\* re.findall: the matches from left to right, each search starting where the
\* previous match ended
RECURSIVE FindAll(_, _, _)
FindAll(pat, text, pos) ==
    IF pos > Len(text)
    THEN <<>>
    ELSE LET e == MatchAt(pat, 1, text, pos)
         IN  IF e # 0
             THEN <<SubSeq(text, pos, e - 1)>> \o FindAll(pat, text, e)
             ELSE FindAll(pat, text, pos + 1)

\* A file: whether open() and the stat calls succeed, and what read() gives.
_analyze_single_jsp(file) ==
    IF file.readable
    THEN Returned("dict",
                  [path          |-> file.path,
                   size          |-> file.size,
                   last_modified |-> <<"isoformat", file.mtime>>,
                   scriptlets    |-> Len(FindAll(ScriptletPattern,
                                                 file.content, 1))],
                  "")
    ELSE Returned("NoneType", None, "failed")

---------------------------------------------------------------------------
(* Calls of one operation on an enumerated argument *)

\* generate_report is not running
ReportIdle ==
    /\ output_file = None
    /\ java_processes = EmptyDict
    /\ idx = 0
    /\ info = EmptyRec
    /\ report = EmptyRec
    /\ written = None
    /\ events = <<>>
    /\ outcomes = <<>>
    /\ last = EmptyRec

reportVars == <<output_file, java_processes, idx, info, report, written,
                events, outcomes, last>>

CallInit(args) ==
    /\ pc = "call"
    /\ arg \in args
    /\ ret = None
    /\ ReportIdle

\* every concatenation of at most n of the chunks
RECURSIVE Concats(_, _)
Concats(chunks, n) ==
    IF n = 0
    THEN {<<>>}
    ELSE LET prev == Concats(chunks, n - 1)
         IN  prev \cup {p \o c : p \in prev, c \in chunks}

\* every sequence of at most n of the lines, joined by newlines
RECURSIVE LinesUpTo(_, _)
LinesUpTo(lines, n) ==
    IF n = 0
    THEN {<<>>}
    ELSE LET prev == LinesUpTo(lines, n - 1)
         IN  prev \cup lines \cup {p \o <<"\n">> \o l : p \in prev, l \in lines}

---------------------------------------------------------------------------
(* SpecJsp: _analyze_single_jsp on every file content *)

MaxChunks == 4

JspChunks ==
    {<<"<">>, <<"%">>, <<">">>, <<"x">>, <<"\n">>, <<"<", "%">>, <<"%", ">">>}

JspFiles ==
    {[path |-> "a.jsp", readable |-> r, content |-> c, size |-> Len(c),
      mtime |-> 0] : r \in BOOLEAN, c \in Concats(JspChunks, MaxChunks)}

AnalyzeSingleJsp ==
    /\ pc = "call"
    /\ ret' = _analyze_single_jsp(arg)
    /\ pc' = "return"
    /\ UNCHANGED <<arg, reportVars>>

InitJsp == CallInit(JspFiles)

NextJsp == AnalyzeSingleJsp

SpecJsp == InitJsp /\ [][NextJsp]_vars

\* the positions where a "<%" starts, and those where a "%>" starts
Opens(content) ==
    {i \in 1..(Len(content) - 1) : content[i] = "<" /\ content[i + 1] = "%"}

Closes(content) ==
    {j \in 1..(Len(content) - 1) : content[j] = "%" /\ content[j + 1] = ">"}

\* the left-to-right scan: the first "<%" at or after from is closed by the
\* nearest "%>" that starts after it; the scan resumes after that "%>"
RECURSIVE ScanCount(_, _)
ScanCount(content, from) ==
    LET opens == {i \in Opens(content) : i >= from}
    IN  IF opens = {}
        THEN 0
        ELSE LET o      == Min(opens)
                 closes == {j \in Closes(content) : j >= o + 2}
             IN  IF closes = {}
                 THEN ScanCount(content, o + 1)
                 ELSE 1 + ScanCount(content, Min(closes) + 2)

HasPair(content) ==
    \E i \in Opens(content) : \E j \in Closes(content) : j >= i + 2

\* C10: for every file content the scriptlets count equals the number of
\* regions of the left-to-right scan in which each "<%" is closed by the
\* nearest following "%>", newlines allowed inside; content with no
\* "<%"..."%>" pair gives 0 and an unterminated "<%" adds nothing.
C10_ScriptletCount ==
    (pc = "return" /\ arg.readable) =>
        /\ ret.value.scriptlets = ScanCount(arg.content, 1)
        /\ (~HasPair(arg.content) => ret.value.scriptlets = 0)

\* a content with two scriptlet regions has been counted
C10_Witness ==
    /\ pc = "return"
    /\ arg.readable
    /\ arg.content = <<"<", "%", "%", ">", "<", "%", "%", ">">>
    /\ ret.value.scriptlets = 2

---------------------------------------------------------------------------
(* Tool runs handed to one tool-backed operation *)

FailedRuns == {Run(k, <<>>) : k \in RunKinds \ {"ok"}}

Runs(outputs) == {Run("ok", o) : o \in outputs} \cup FailedRuns

\* the lines of a text, as the claims speak of them
LinesOf(text) == SplitOn(text, "\n")

Count(line, c) == Cardinality({i \in 1..Len(line) : line[i] = c})

\* the text before, and after, the first c of a line that holds one
BeforeFirst(line, c) ==
    LET i == CHOOSE j \in 1..Len(line) :
                 line[j] = c /\ \A h \in 1..(j - 1) : line[h] # c
    IN  SubSeq(line, 1, i - 1)

AfterFirst(line, c) ==
    LET i == CHOOSE j \in 1..Len(line) :
                 line[j] = c /\ \A h \in 1..(j - 1) : line[h] # c
    IN  SubSeq(line, i + 1, Len(line))

\* the n-th smallest element of a set of indices, and the largest
NthOf(S, n) == CHOOSE x \in S : Cardinality({y \in S : y < x}) = n - 1

MaxOf(S) == CHOOSE x \in S : \A y \in S : y <= x

\* the indices after the n-th index of starts and before its next one
Segment(lines, starts, n) ==
    LET from == NthOf(starts, n)
        to   == IF n < Cardinality(starts)
                THEN NthOf(starts, n + 1)
                ELSE Len(lines) + 1
    IN  {i \in 1..Len(lines) : from < i /\ i < to}

---------------------------------------------------------------------------
(* SpecProps: analyze_system_properties on every tool run *)

MaxPropChunks == 5

PropChunks ==
    {<<"a">>, <<"b">>, <<"=">>, <<" ">>, <<"\n">>, <<"a", "=">>}

AnalyzeSystemProperties ==
    /\ pc = "call"
    /\ ret' = analyze_system_properties(<<"1">>, arg)
    /\ pc' = "return"
    /\ UNCHANGED <<arg, reportVars>>

InitProps == CallInit(Runs(Concats(PropChunks, MaxPropChunks)))

NextProps == AnalyzeSystemProperties

SpecProps == InitProps /\ [][NextProps]_vars

PropLines(lines) == {i \in 1..Len(lines) : Count(lines[i], "=") >= 1}

PropKey(line) == Strip(BeforeFirst(line, "="))

PropValue(line) == Strip(AfterFirst(line, "="))

\* C9: on exit code zero the result has exactly the keys of the lines that
\* contain "=" (the trimmed text before the first "="), each with the
\* trimmed text after the first "=" of the last line that has that key;
\* lines without "=" add nothing.
C9_Properties ==
    (pc = "return" /\ arg.kind = "ok") =>
        LET lines == LinesOf(arg.stdout)
            E     == PropLines(lines)
        IN  /\ ~ret.raised
            /\ DOMAIN ret.value = {PropKey(lines[i]) : i \in E}
            /\ \A i \in E :
                   (\A j \in E : j > i => PropKey(lines[j]) # PropKey(lines[i]))
                   => ret.value[PropKey(lines[i])] = PropValue(lines[i])

\* a key on two lines: the value of the second line is the one returned
C9_Witness ==
    /\ pc = "return"
    /\ arg.kind = "ok"
    /\ arg.stdout = <<"a", "=", "b", "\n", "a", "=", "a">>
    /\ ret.value[<<"a">>] = <<"a">>

---------------------------------------------------------------------------
(* SpecJps: get_java_processes on every tool run *)

MaxJpsChunks == 5

JpsChunks ==
    {<<"1">>, <<"2">>, <<"a">>, <<" ">>, <<"\n">>, <<"1", " ">>}

GetJavaProcesses ==
    /\ pc = "call"
    /\ ret' = get_java_processes(arg)
    /\ pc' = "return"
    /\ UNCHANGED <<arg, reportVars>>

InitJps == CallInit(Runs(Concats(JpsChunks, MaxJpsChunks)))

NextJps == GetJavaProcesses

SpecJps == InitJps /\ [][NextJps]_vars

\* the lines with a process id and a command: two tokens or more
JpsEntries(lines) == {i \in 1..Len(lines) : Len(SplitWS(lines[i])) >= 2}

JpsPid(line) == SplitWS(line)[1]

JpsCommand(line) == Join(<<" ">>, Tail(SplitWS(line)))

---------------------------------------------------------------------------
(* SpecClassloader: analyze_web_components on every tool run *)

MaxLoaderLines == 3

LoaderLines ==
    {<<"ClassLoader">>,
     <<"ClassLoader", " ", "x", ":", " ">>,
     <<" ", "ClassLoader">>,
     <<"k", ":", " ", "v">>,
     <<" ", "k", " ", ":", "w", " ">>,
     <<"j", ":", "v">>,
     <<"k", ":", "v", ":", "w">>,
     <<"k", ":">>,
     <<"type", ":", "v">>,
     <<"x">>,
     <<" ">>,
     <<>>}

AnalyzeWebComponents ==
    /\ pc = "call"
    /\ ret' = analyze_web_components(<<"1">>, arg)
    /\ pc' = "return"
    /\ UNCHANGED <<arg, reportVars>>

InitClassloader == CallInit(Runs(LinesUpTo(LoaderLines, MaxLoaderLines)))

NextClassloader == AnalyzeWebComponents

SpecClassloader == InitClassloader /\ [][NextClassloader]_vars

MarkerLines(lines) ==
    {i \in 1..Len(lines) : StartsWith(lines[i], LoaderMarker)}

FieldKey(line) == Strip(BeforeFirst(line, ":"))

FieldValue(line) == Strip(AfterFirst(line, ":"))

\* one record per marker line, in input order, each starting as its marker
OneRecordPerMarker(lines, records) ==
    /\ Len(records) = Cardinality(MarkerLines(lines))
    /\ \A n \in 1..Len(records) :
           /\ <<"type">> \in DOMAIN records[n]
           /\ (\A i \in Segment(lines, MarkerLines(lines), n) :
                   Count(lines[i], ":") >= 1 => FieldKey(lines[i]) # <<"type">>)
              => records[n][<<"type">>] =
                     Strip(lines[NthOf(MarkerLines(lines), n)])

\* C6 as stated: every line with a colon between two marker lines is added
\* to the record of the preceding marker, split on its first colon, and the
\* result has one record per marker line.
C6_SplitOnFirstColon ==
    (pc = "return" /\ arg.kind = "ok") =>
        LET lines == LinesOf(arg.stdout)
        IN  /\ OneRecordPerMarker(lines, ret.value)
            /\ \A n \in 1..Len(ret.value) :
                   LET F == {i \in Segment(lines, MarkerLines(lines), n) :
                                 Count(lines[i], ":") >= 1}
                   IN  \A i \in F :
                           /\ FieldKey(lines[i]) \in DOMAIN ret.value[n]
                           /\ (\A j \in F : j > i =>
                                   FieldKey(lines[j]) # FieldKey(lines[i]))
                              => ret.value[n][FieldKey(lines[i])] =
                                     FieldValue(lines[i])

\* C6 amended: every line with exactly one colon between two marker lines is
\* added (key and value trimmed, a later line with the same key replacing an
\* earlier one) to the record of the preceding marker and to no other; a
\* line with no colon or with two or more is skipped; there is one record
\* per marker line, in input order, the last one flushed at end of input.
C6_ExactlyOneColon ==
    (pc = "return" /\ arg.kind = "ok") =>
        LET lines == LinesOf(arg.stdout)
        IN  /\ ~ret.raised
            /\ OneRecordPerMarker(lines, ret.value)
            /\ \A n \in 1..Len(ret.value) :
                   LET F == {i \in Segment(lines, MarkerLines(lines), n) :
                                 Count(lines[i], ":") = 1}
                   IN  /\ DOMAIN ret.value[n] =
                              {<<"type">>} \cup {FieldKey(lines[i]) : i \in F}
                       /\ \A i \in F :
                              (\A j \in F : j > i =>
                                   FieldKey(lines[j]) # FieldKey(lines[i]))
                              => ret.value[n][FieldKey(lines[i])] =
                                     FieldValue(lines[i])

\* two markers, a field line before the first and one after each: two
\* records, each with the field of its own segment
C6_Witness ==
    /\ pc = "return"
    /\ arg.kind = "ok"
    /\ arg.stdout = <<"ClassLoader", "\n", "k", ":", " ", "v", "\n",
                      "ClassLoader", " ", "x", ":", " ">>
    /\ Len(ret.value) = 2
    /\ ret.value[1][<<"k">>] = <<"v">>
    /\ DOMAIN ret.value[2] = {<<"type">>}

---------------------------------------------------------------------------
(* SpecThreads: analyze_threads on every tool run *)

MaxDumpLines == 3

DumpLines ==
    {<<"\"", "m", "\"">>,
     <<"\"", "n", "\"", " ", "x", "\"">>,
     <<"\"", "m">>,
     <<"\"", "m", "\"", " ", "java.lang.Thread.State", ":", " ", "R">>,
     <<" ", "java.lang.Thread.State", ":", " ", "R">>,
     <<"java.lang.Thread.State", ":", " ", "W", ":", "x">>,
     <<"x", ":", " ", "java.lang.Thread.State", ":", " ", "R">>,
     <<"\t", "at", " ", "f">>,
     <<"at", " ", "g", " ">>,
     <<"at", " ", "java.lang.Thread.State", ":", "R">>,
     <<"x">>,
     <<>>}

AnalyzeThreads ==
    /\ pc = "call"
    /\ ret' = analyze_threads(<<"1">>, arg)
    /\ pc' = "return"
    /\ UNCHANGED <<arg, reportVars>>

InitThreads == CallInit(Runs(LinesUpTo(DumpLines, MaxDumpLines)))

NextThreads == AnalyzeThreads

SpecThreads == InitThreads /\ [][NextThreads]_vars

HeaderLines(lines) == {i \in 1..Len(lines) : StartsWith(lines[i], <<"\"">>)}

HasStateMarker(line) == Contains(line, StateMarker)

IsFrame(line) == StartsWith(Strip(line), StackPrefix)

\* the lines of a set of indices, trimmed, in input order
TrimmedLines(lines, S) ==
    [k \in 1..Cardinality(S) |-> Strip(lines[NthOf(S, k)])]

\* C7: every line that contains the state marker and follows a thread header
\* sets the record's state to the whole text after the line's first colon,
\* trimmed, further colons included; so a record's state is that text of the
\* last such line of its segment.
C7_StateAfterFirstColon ==
    (pc = "return" /\ arg.kind = "ok") =>
        LET lines == LinesOf(arg.stdout)
        IN  \A n \in 1..Len(ret.value) :
                LET S == {i \in Segment(lines, HeaderLines(lines), n) :
                              HasStateMarker(lines[i])}
                IN  S # {} =>
                        ret.value[n].state =
                            Strip(AfterFirst(lines[MaxOf(S)], ":"))

\* one record per header line, in input order, named by the text between
\* the first two quote characters of its header
OneRecordPerHeader(lines, records) ==
    /\ Len(records) = Cardinality(HeaderLines(lines))
    /\ \A n \in 1..Len(records) :
           LET header == lines[NthOf(HeaderLines(lines), n)]
           IN  Count(header, "\"") >= 2 =>
                   records[n].name =
                       BeforeFirst(AfterFirst(header, "\""), "\"")

\* C8 as stated: one record per line that starts with a quote, in input
\* order, named by the text between the first pair of quotes; its stack is
\* the trimmed `at `-prefixed lines between its header and the next header,
\* in input order.
C8_StackIsEveryFrameLine ==
    (pc = "return" /\ arg.kind = "ok") =>
        LET lines == LinesOf(arg.stdout)
        IN  /\ OneRecordPerHeader(lines, ret.value)
            /\ \A n \in 1..Len(ret.value) :
                   ret.value[n].stack =
                       TrimmedLines(lines,
                           {i \in Segment(lines, HeaderLines(lines), n) :
                                IsFrame(lines[i])})

\* C8 amended: as stated, except that the stack holds the trimmed
\* `at `-prefixed lines that do not contain the thread-state marker (a line
\* with the marker is taken as a state line and is not a stack line).
C8_StackIsFrameLinesWithoutMarker ==
    (pc = "return" /\ arg.kind = "ok") =>
        LET lines == LinesOf(arg.stdout)
        IN  /\ ~ret.raised
            /\ OneRecordPerHeader(lines, ret.value)
            /\ \A n \in 1..Len(ret.value) :
                   ret.value[n].stack =
                       TrimmedLines(lines,
                           {i \in Segment(lines, HeaderLines(lines), n) :
                                IsFrame(lines[i]) /\ ~HasStateMarker(lines[i])})

\* a header followed by two frame lines has been parsed
C8_Witness ==
    /\ pc = "return"
    /\ arg.kind = "ok"
    /\ arg.stdout = <<"\"", "m", "\"", "\n",
                      "\t", "at", " ", "f", "\n", "at", " ", "g", " ">>
    /\ Len(ret.value) = 1
    /\ ret.value[1].name = <<"m">>
    /\ ret.value[1].stack = <<<<"at", " ", "f">>, <<"at", " ", "g">>>>

---------------------------------------------------------------------------
(* Spec: one generate_report call, every tool run and the file write free *)

OutputFiles == {None, <<>>, <<"java_analysis_report.json">>}

ListingOutputs ==
    {<<>>,
     <<"1">>,
     <<"1", " ", "a">>,
     <<"1", " ", "a", "\n", "2", " ", "b">>,
     <<"2", " ", "b", "\n", "1", " ", "a", " ", "a">>,
     <<"1", " ", "a", "\n", "1", " ", "b">>}

WebOutputs == {<<"ClassLoader", "\n", "k", ":", "v">>}

ThreadOutputs ==
    {<<"\"", "m", "\"", "\n", " ", "java.lang.Thread.State", ":", " ", "R",
       "\n", "\t", "at", " ", "f">>}

PropOutputs == {<<"a", "=", "b">>}

\* the loop variables of `for pid, command in java_processes.items()`
Pid == java_processes[idx][1]

Command == java_processes[idx][2]

\* `if output_file:` is false for None and for the empty string
Falsy(s) == s = None \/ s = <<>>

Init ==
    /\ pc = "start"
    /\ arg = None
    /\ ret = None
    /\ output_file \in OutputFiles
    /\ java_processes = EmptyDict
    /\ idx = 0
    /\ info = EmptyRec
    /\ report = EmptyRec
    /\ written = None
    /\ events = <<>>
    /\ outcomes = <<>>
    /\ last = EmptyRec

\* an operation is entered
Invoke(op, a, next) ==
    /\ events' = Append(events, <<"call", op, a>>)
    /\ pc' = next
    /\ UNCHANGED <<arg, ret, output_file, java_processes, idx, info, report,
                   written, outcomes, last>>

\* a tool-backed operation is left, by return or by an exception
Leave(op, a, run, result) ==
    /\ events' = Append(events,
                        <<IF result.raised THEN "raise" ELSE "return", op, a>>)
    /\ outcomes' = Append(outcomes, [op |-> op, pid |-> a, run |-> run])
    /\ last' = [op |-> op, run |-> run, result |-> result]

\* an analysis of the current process is left: its value becomes a field of
\* process_info; an exception would leave generate_report too
LeaveAnalysis(op, field, run, result, next) ==
    /\ Leave(op, Pid, run, result)
    /\ IF result.raised
       THEN ret' = result /\ pc' = "done" /\ UNCHANGED info
       ELSE info' = SetItem(info, field, result.value) /\ pc' = next
            /\ UNCHANGED ret
    /\ UNCHANGED <<arg, output_file, java_processes, idx, report, written>>

\* lines 180-184
CreateReport ==
    /\ pc = "start"
    /\ report' = [timestamp |-> "now", processes |-> EmptyDict,
                  warnings |-> <<>>]
    /\ pc' = "list"
    /\ UNCHANGED <<arg, ret, output_file, java_processes, idx, info, written,
                   events, outcomes, last>>

\* line 186
CallList ==
    /\ pc = "list"
    /\ Invoke("get_java_processes", None, "list_run")

ReturnList ==
    /\ pc = "list_run"
    /\ \E run \in Runs(ListingOutputs) :
           LET result == get_java_processes(run)
           IN  /\ Leave("get_java_processes", None, run, result)
               /\ IF result.raised
                  THEN ret' = result /\ pc' = "done"
                       /\ UNCHANGED <<java_processes, idx>>
                  ELSE java_processes' = result.value /\ idx' = 1
                       /\ pc' = "loop" /\ UNCHANGED ret
    /\ UNCHANGED <<arg, output_file, info, report, written>>

\* line 187 and the 'command' item of line 189
NextProcess ==
    /\ pc = "loop"
    /\ idx <= Len(java_processes)
    /\ info' = SetItem(EmptyRec, "command", Command)
    /\ pc' = "web"
    /\ UNCHANGED <<arg, ret, output_file, java_processes, idx, report,
                   written, events, outcomes, last>>

LoopDone ==
    /\ pc = "loop"
    /\ idx > Len(java_processes)
    /\ pc' = "write"
    /\ UNCHANGED <<arg, ret, output_file, java_processes, idx, info, report,
                   written, events, outcomes, last>>

\* line 190
CallWeb ==
    /\ pc = "web"
    /\ Invoke("analyze_web_components", Pid, "web_run")

\* a caller that calls again after a failed run
ReturnWebRetry ==
    /\ pc = "web_run"
    /\ \E run \in Runs(WebOutputs) :
           IF run.kind = "ok"
           THEN LeaveAnalysis("analyze_web_components", "web_components", run,
                              analyze_web_components(Pid, run), "threads")
           ELSE LeaveAnalysis("analyze_web_components", "web_components", run,
                              analyze_web_components(Pid, run), "web")

ReturnWeb ==
    /\ pc = "web_run"
    /\ \E run \in Runs(WebOutputs) :
           LeaveAnalysis("analyze_web_components", "web_components", run,
                         analyze_web_components(Pid, run), "threads")

\* line 191
CallThreads ==
    /\ pc = "threads"
    /\ Invoke("analyze_threads", Pid, "threads_run")

ReturnThreads ==
    /\ pc = "threads_run"
    /\ \E run \in Runs(ThreadOutputs) :
           LeaveAnalysis("analyze_threads", "threads", run,
                         analyze_threads(Pid, run), "props")

\* line 192
CallProps ==
    /\ pc = "props"
    /\ Invoke("analyze_system_properties", Pid, "props_run")

ReturnProps ==
    /\ pc = "props_run"
    /\ \E run \in Runs(PropOutputs) :
           LeaveAnalysis("analyze_system_properties", "system_properties", run,
                         analyze_system_properties(Pid, run), "store")

\* a report that leaves out a process one of whose analyses came back empty
StoreProcessUnlessEmpty ==
    /\ pc = "store"
    /\ report' = IF \E f \in DOMAIN info \ {"command"} : DOMAIN info[f] = {}
                 THEN report
                 ELSE [report EXCEPT
                          !.processes = DictSet(@, Pid, info)]
    /\ idx' = idx + 1
    /\ pc' = "loop"
    /\ UNCHANGED <<arg, ret, output_file, java_processes, info, written,
                   events, outcomes, last>>

\* line 194, and the loop goes on
StoreProcess ==
    /\ pc = "store"
    /\ report' = [report EXCEPT !.processes = DictSet(@, Pid, info)]
    /\ idx' = idx + 1
    /\ pc' = "loop"
    /\ UNCHANGED <<arg, ret, output_file, java_processes, info, written,
                   events, outcomes, last>>

\* line 196, no output file
SkipWrite ==
    /\ pc = "write"
    /\ Falsy(output_file)
    /\ pc' = "exit"
    /\ UNCHANGED <<arg, ret, output_file, java_processes, idx, info, report,
                   written, events, outcomes, last>>

\* lines 196-199: open() or the dump may fail, and nothing catches it
WriteFile ==
    /\ pc = "write"
    /\ ~Falsy(output_file)
    /\ \E ok \in BOOLEAN :
           IF ok
           THEN /\ written' = <<"json", report>>
                /\ events' = events \o <<<<"call", "write", output_file>>,
                                         <<"return", "write", output_file>>>>
                /\ pc' = "exit"
                /\ UNCHANGED ret
           ELSE /\ ret' = Raised("OSError")
                /\ events' = events \o <<<<"call", "write", output_file>>,
                                         <<"raise", "write", output_file>>>>
                /\ pc' = "done"
                /\ UNCHANGED written
    /\ UNCHANGED <<arg, output_file, java_processes, idx, info, report,
                   outcomes, last>>

\* line 201
ReturnReport ==
    /\ pc = "exit"
    /\ ret' = Returned("dict", report, "")
    /\ pc' = "done"
    /\ UNCHANGED <<arg, output_file, java_processes, idx, info, report,
                   written, events, outcomes, last>>

Next ==
    \/ CreateReport
    \/ CallList
    \/ ReturnList
    \/ NextProcess
    \/ LoopDone
    \/ CallWeb
    \/ ReturnWeb
    \/ CallThreads
    \/ ReturnThreads
    \/ CallProps
    \/ ReturnProps
    \/ StoreProcess
    \/ SkipWrite
    \/ WriteFile
    \/ ReturnReport

Spec == Init /\ [][Next]_vars

---------------------------------------------------------------------------
(* Claims about generate_report and the tool-backed operations *)

IsEmpty(v) == DOMAIN v = {}

\* the empty value each operation declares: {} or []
DeclaredType(op) ==
    IF op \in {"get_java_processes", "analyze_system_properties"}
    THEN "dict"
    ELSE "list"

\* C1: each of the four tool-backed operations, whatever the tool run did
\* (timeout, launch error, non-zero exit code), returns its declared empty
\* value, {} or [], and lets no exception reach its caller.
C1_EmptyOnFailure ==
    Truthy(last) =>
        /\ ~last.result.raised
        /\ last.run.kind # "ok" =>
               /\ last.result.type = DeclaredType(last.op)
               /\ IsEmpty(last.result.value)

\* the lister has listed a process and each of its three analyses has met a
\* different failure of its tool
C1_Witness ==
    /\ Len(outcomes) = 4
    /\ outcomes[1].run.kind = "ok"
    /\ outcomes[2].run.kind = "timeout"
    /\ outcomes[3].run.kind = "oserror"
    /\ outcomes[4].run.kind = "nonzero"
    /\ last.op = "analyze_system_properties"
    /\ ~last.result.raised
    /\ IsEmpty(info["web_components"])
    /\ IsEmpty(info["threads"])
    /\ IsEmpty(info["system_properties"])

\* C2: whatever the listing, the analyses and the file write did,
\* generate_report runs to completion and returns the report object.
C2_NoFailureIsFatal ==
    pc = "done" => (~ret.raised /\ ret.value = report)

\* the run of the tool recorded for one operation on one process
RunOf(op, pid) ==
    (CHOOSE i \in 1..Len(outcomes) :
         outcomes[i].op = op /\ outcomes[i].pid = pid)

\* what an operation parses out of a tool output
Parsed(op, stdout) ==
    CASE op = "analyze_web_components" -> _parse_classloader_output(stdout)
      [] op = "analyze_threads" -> _parse_thread_dump(stdout)
      [] op = "analyze_system_properties" ->
             PropertiesLoop(SplitOn(stdout, "\n"), EmptyRec)

FieldOps ==
    {<<"web_components", "analyze_web_components">>,
     <<"threads", "analyze_threads">>,
     <<"system_properties", "analyze_system_properties">>}

\* C3: the returned report has exactly one entry per listed process id, in
\* the listing's order, each with the four fields; a field is empty when
\* its own analysis failed and is what that analysis parsed otherwise,
\* whatever the other analyses did; warnings is empty.
C3_ReportShape ==
    (pc = "done" /\ ~ret.raised) =>
        LET procs == ret.value.processes
        IN  /\ KeyList(procs) = KeyList(java_processes)
            /\ Len(procs) = Cardinality(Keys(procs))
            /\ ret.value.warnings = <<>>
            /\ \A i \in 1..Len(procs) :
                   LET pid   == procs[i][1]
                       entry == procs[i][2]
                   IN  /\ DOMAIN entry = {"command", "web_components",
                                          "threads", "system_properties"}
                       /\ entry["command"] = java_processes[i][2]
                       /\ \A fo \in FieldOps :
                              LET run == outcomes[RunOf(fo[2], pid)].run
                              IN  IF run.kind = "ok"
                                  THEN entry[fo[1]] = Parsed(fo[2], run.stdout)
                                  ELSE IsEmpty(entry[fo[1]])

\* a report of two processes: the thread analysis of the first failed, and
\* only that field of only that process is empty
C3_Witness ==
    /\ pc = "done"
    /\ ~ret.raised
    /\ Len(ret.value.processes) = 2
    /\ outcomes[3].run.kind = "timeout"
    /\ IsEmpty(ret.value.processes[1][2]["threads"])
    /\ ~IsEmpty(ret.value.processes[1][2]["web_components"])
    /\ ~IsEmpty(ret.value.processes[1][2]["system_properties"])
    /\ ~IsEmpty(ret.value.processes[2][2]["threads"])

\* the calls and returns of one pass over the listed process ids
RECURSIVE PerProcess(_)
PerProcess(pids) ==
    IF pids = <<>>
    THEN <<>>
    ELSE <<<<"call", "analyze_web_components", Head(pids)>>,
           <<"return", "analyze_web_components", Head(pids)>>,
           <<"call", "analyze_threads", Head(pids)>>,
           <<"return", "analyze_threads", Head(pids)>>,
           <<"call", "analyze_system_properties", Head(pids)>>,
           <<"return", "analyze_system_properties", Head(pids)>>>>
         \o PerProcess(Tail(pids))

OnePass(pids, file, how) ==
    <<<<"call", "get_java_processes", None>>,
      <<"return", "get_java_processes", None>>>>
    \o PerProcess(pids)
    \o IF Falsy(file)
       THEN <<>>
       ELSE <<<<"call", "write", file>>, <<how, "write", file>>>>

IsPrefix(s, t) == Len(s) <= Len(t) /\ s = SubSeq(t, 1, Len(s))

\* C4: one generate_report call is one linear pass: the listing once, then
\* for each listed process id, in the listing's order, the classloader, the
\* thread and the property analysis once each, every call returning before
\* the next one starts, no retry, no JSP scan, and the file write (if an
\* output path is given) after the last analysis.
C4_LinearPass ==
    /\ pc \notin {"start", "list", "list_run"} =>
           \E how \in {"return", "raise"} :
               IsPrefix(events,
                        OnePass(KeyList(java_processes), output_file, how))
    /\ pc = "done" =>
           \E how \in {"return", "raise"} :
               events = OnePass(KeyList(java_processes), output_file, how)

\* a pass over two processes that ended with the file written
C4_Witness ==
    /\ pc = "done"
    /\ Len(java_processes) = 2
    /\ written # None
    /\ Len(events) = 16

====
